---- MODULE Spec2Model ----
(***************************************************************************)
(* Model of clean/clean.py: extract_CLEAN, the iterative CLEAN             *)
(* decomposition of a measured signal into scaled, delayed and             *)
(* phase-shifted copies of an original signal.                             *)
(*                                                                         *)
(* Number representation.  The code computes in floating-point complex     *)
(* numbers.  The model computes exactly in the ring Z[zeta], zeta =        *)
(* exp(i*pi/6): a complex number is <<a0, a1, a2, a3>> standing for        *)
(* a0 + a1*zeta + a2*zeta^2 + a3*zeta^3 (zeta^4 = zeta^2 - 1).  The ring   *)
(* holds every twiddle factor of a DFT whose length divides 12.  Angles    *)
(* (np.angle, phase, the argument of np.exp) are integers in units of      *)
(* pi/6, never wrapped.  A division (ifft's 1/N), an absolute value or an  *)
(* angle that leaves the ring has no value in the model: the CHOOSE that   *)
(* defines it fails, so a run that completes computed every number         *)
(* exactly.  threshold is a rational with denominator ThreshDen.           *)
(***************************************************************************)
EXTENDS Integers, Sequences, FiniteSets, TLC

(***************************************************************************)
(* Bounds of the model.                                                    *)
(***************************************************************************)
\* samples of measured_signal range over -MaxSample..MaxSample
MaxSample == 3
\* loop iterations explored per call (the code has no cap)
MaxIter == 3
\* amplitudes drawn for the reconstruction operator range over 0..MaxAmp
MaxAmp == 2

(***************************************************************************)
(* Complex arithmetic in Z[zeta].                                          *)
(***************************************************************************)
\* np.pi in angle units of pi/6
Pi == 6

CInt(n) == <<n, 0, 0, 0>>

CZero == CInt(0)

CAdd(a, b) == <<a[1] + b[1], a[2] + b[2], a[3] + b[3], a[4] + b[4]>>

CSub(a, b) == <<a[1] - b[1], a[2] - b[2], a[3] - b[3], a[4] - b[4]>>

\* real scalar n times z
CScale(n, z) == <<n * z[1], n * z[2], n * z[3], n * z[4]>>

\* a * b: the product of the two polynomials in zeta, reduced by
\* zeta^4 = zeta^2 - 1, zeta^5 = zeta^3 - zeta, zeta^6 = -1
CMul(a, b) ==
    LET c0 == a[1] * b[1]
        c1 == a[1] * b[2] + a[2] * b[1]
        c2 == a[1] * b[3] + a[2] * b[2] + a[3] * b[1]
        c3 == a[1] * b[4] + a[2] * b[3] + a[3] * b[2] + a[4] * b[1]
        c4 == a[2] * b[4] + a[3] * b[3] + a[4] * b[2]
        c5 == a[3] * b[4] + a[4] * b[3]
        c6 == a[4] * b[4]
    IN <<c0 - c4 - c6, c1 - c5, c2 + c4, c3 + c5>>

\* zeta^0, ..., zeta^11
ZetaPowers ==
    << <<1, 0, 0, 0>>, <<0, 1, 0, 0>>, <<0, 0, 1, 0>>, <<0, 0, 0, 1>>,
       <<-1, 0, 1, 0>>, <<0, -1, 0, 1>>, <<-1, 0, 0, 0>>, <<0, -1, 0, 0>>,
       <<0, 0, -1, 0>>, <<0, 0, 0, -1>>, <<1, 0, -1, 0>>, <<0, 1, 0, -1>> >>

\* complex conjugate: conj(zeta) = zeta - zeta^3, conj(zeta^2) = 1 - zeta^2
CConj(z) == <<z[1] + z[3], z[2], -z[3], -z[2] - z[4]>>

\* np.exp(1j*theta), theta in units of pi/6
CExp(theta) == ZetaPowers[(theta % (2 * Pi)) + 1]

IAbs(n) == IF n < 0 THEN -n ELSE n

\* z / n for an integer n > 0, exact
CDiv(z, n) ==
    CHOOSE q \in {<<z[1] \div n, z[2] \div n, z[3] \div n, z[4] \div n>>} :
        CScale(n, q) = z

\* z.real
CReal(z) == CDiv(CAdd(z, CConj(z)), 2)

\* abs(z), for z of integer modulus
CAbs(z) ==
    LET n2 == CMul(z, CConj(z))
    IN CHOOSE a \in 0..(IAbs(z[1]) + IAbs(z[2]) + IAbs(z[3]) + IAbs(z[4])) :
           n2 = CInt(a * a)

\* np.angle(z) in units of pi/6, in (-pi, pi]; np.angle(0) = 0
CAngle(z) ==
    IF z = CZero THEN 0
    ELSE CHOOSE t \in (1 - Pi)..Pi : z = CScale(CAbs(z), CExp(t))

(***************************************************************************)
(* numpy arrays: functions on 0..n-1.                                      *)
(***************************************************************************)
ArrLen(a) == Cardinality(DOMAIN a)

\* the array f as an explicit table of its values (a function expression is
\* otherwise re-evaluated at each application)
Array(f) == f @@ <<>>

\* a[lo:hi] for 0 <= lo, hi <= len(a)
Slice(a, lo, hi) == Array([i \in 0..(hi - lo - 1) |-> a[lo + i]])

\* a[::-1]
Reversed(a) == Array([i \in DOMAIN a |-> a[ArrLen(a) - 1 - i]])

\* np.concatenate((a, b))
Concatenate(a, b) ==
    Array([i \in 0..(ArrLen(a) + ArrLen(b) - 1) |->
              IF i < ArrLen(a) THEN a[i] ELSE b[i - ArrLen(a)]])

\* a.conj()
Conj(a) == Array([i \in DOMAIN a |-> CConj(a[i])])

\* a[0] + ... + a[n-1]
CSum(a, n) ==
    LET S[k \in 0..n] == IF k = 0 THEN CZero ELSE CAdd(S[k - 1], a[k - 1])
    IN S[n]

\* angle of exp(2*pi*i/n) in units of pi/6 (n divides 12)
Twiddle(n) == (2 * Pi) \div n

\* np.fft.fft(x)
FFT(x) ==
    Array([k \in DOMAIN x |->
              CSum(Array([n \in DOMAIN x |->
                             CMul(x[n], CExp(-Twiddle(ArrLen(x)) * k * n))]),
                   ArrLen(x))])

\* np.fft.ifft(X)
IFFT(X) ==
    Array([n \in DOMAIN X |->
              CDiv(CSum(Array([k \in DOMAIN X |->
                                  CMul(X[k], CExp(Twiddle(ArrLen(X)) * k * n))]),
                        ArrLen(X)),
                   ArrLen(X))])

\* scipy.signal.hilbert's spectral weights for length n
HilbertWeights(n) ==
    Array([k \in 0..(n - 1) |->
              IF n % 2 = 0
              THEN (IF k = 0 \/ k = n \div 2 THEN 1
                    ELSE IF k < n \div 2 THEN 2 ELSE 0)
              ELSE (IF k = 0 THEN 1
                    ELSE IF k < (n + 1) \div 2 THEN 2 ELSE 0)])

\* scipy.signal.hilbert(x): the analytic signal of x
Hilbert(x) ==
    LET Xf == FFT(x)
        h == HilbertWeights(ArrLen(x))
    IN IFFT(Array([k \in DOMAIN x |-> CScale(h[k], Xf[k])]))

\* abs(a), elementwise
Abs(a) == Array([i \in DOMAIN a |-> CAbs(a[i])])

\* np.argmax(v): the first index of the maximum
Argmax(v) ==
    CHOOSE i \in DOMAIN v :
        /\ \A j \in DOMAIN v : v[j] <= v[i]
        /\ \A j \in DOMAIN v : j < i => v[j] < v[i]

ISign(n) == IF n < 0 THEN -1 ELSE 1

\* np.fft.fftfreq(n, d), d # 0: bin k holds the rational num/den with den > 0
FFTFreq(n, d) ==
    Array([k \in 0..(n - 1) |->
              [num |-> ISign(d) * (IF k < ((n - 1) \div 2) + 1 THEN k ELSE k - n),
               den |-> n * IAbs(d)]])

(***************************************************************************)
(* Python lists and the arguments of a call.                               *)
(***************************************************************************)
\* xs[:-1]
ButLast(xs) == SubSeq(xs, 1, Len(xs) - 1)

\* thresholds are rationals threshold/ThreshDen; the default 0.4 is 4/10
ThreshDen == 10

\* threshold=0.4, the default argument
DefaultThreshold == 4

Thresholds == {-2, 0, DefaultThreshold, 5, ThreshDen, 12}

DeltaTs == {-1, 0, 2}

Lengths == {1, 2, 3, 4}

\* samples of measured_signal
Samples == (-MaxSample)..MaxSample

\* samples of original_signal: a reference pulse of unit scale
RefSamples == {-1, 0, 1}

\* The signals of length n on which every transform of a run stays in the ring
\* with integer moduli: those with DC and Nyquist content only (all signals of
\* length 1 and 2, the constant ones of odd length, the alternating ones of even
\* length).
Period(n) == IF n % 2 = 0 THEN 2 ELSE 1

Signals(n, S) ==
    {Array([i \in 0..(n - 1) |-> CInt(p[i % Period(n)])]) :
        p \in [0..(Period(n) - 1) -> S]}

\* the (len(measured_signal), len(original_signal)) pairs of the calls explored:
\* equal lengths, and lengths that differ by one (1 and 2, which numpy
\* broadcasts, and 2 and 3, which it does not)
LengthPairs ==
    {lp \in Lengths \X Lengths :
        \/ lp[1] = lp[2]
        \/ lp[1] <= 3 /\ lp[2] <= 3 /\ IAbs(lp[1] - lp[2]) = 1}

(***************************************************************************)
(* extract_CLEAN                                                           *)
(***************************************************************************)
VARIABLES
    measured_signal, original_signal, delta_t, threshold,
    original_spectrum, measured_spectrum, omega,
    original_hilbert, original_argpeak,
    amplitudes, delays, phases, components,
    residue, amplitude, amp_max, delay, phase, reconstructed,
    pc, error, result, iterations

vars ==
    <<measured_signal, original_signal, delta_t, threshold,
      original_spectrum, measured_spectrum, omega,
      original_hilbert, original_argpeak,
      amplitudes, delays, phases, components,
      residue, amplitude, amp_max, delay, phase, reconstructed,
      pc, error, result, iterations>>

args == <<measured_signal, original_signal, delta_t, threshold>>

reference == <<original_spectrum, measured_spectrum, omega,
               original_hilbert, original_argpeak>>

\* the dummy values initialising the loop
AmplitudeSentinel == 1

AmpMaxSentinel == 2

\* the locals of a call before any statement has run
Unbound ==
    /\ original_spectrum = <<>>
    /\ measured_spectrum = <<>>
    /\ omega = <<>>
    /\ original_hilbert = <<>>
    /\ original_argpeak = 0
    /\ amplitudes = <<>>
    /\ delays = <<>>
    /\ phases = <<>>
    /\ components = <<>>
    /\ residue = <<>>
    /\ amplitude = 0
    /\ amp_max = 0
    /\ delay = 0
    /\ phase = 0
    /\ reconstructed = <<>>
    /\ error = "none"
    /\ result = <<>>
    /\ iterations = 0

\* a call extract_CLEAN(measured_signal, original_signal, delta_t, threshold)
Init ==
    /\ \E lp \in LengthPairs :
        /\ measured_signal \in Signals(lp[1], Samples)
        /\ original_signal \in Signals(lp[2], RefSamples)
    /\ delta_t \in DeltaTs
    /\ threshold \in Thresholds
    /\ pc = "start"
    /\ Unbound

\* the while condition: amplitude > threshold*amp_max
LoopCondFlipped(amp, thr, amax) == amp * ThreshDen < thr * amax

LoopCond(amp, thr, amax) == amp * ThreshDen > thr * amax

\* the statements before the loop, delta_t # 0
Setup ==
    /\ pc = "start"
    /\ delta_t # 0
    /\ original_spectrum' = FFT(original_signal)
    /\ measured_spectrum' = FFT(measured_signal)
    /\ omega' = FFTFreq(ArrLen(original_signal), delta_t)
    /\ original_hilbert' = Hilbert(original_signal)
    /\ original_argpeak' = Argmax(Abs(original_hilbert'))
    /\ amplitudes' = <<>>
    /\ delays' = <<>>
    /\ phases' = <<>>
    /\ components' = <<>>
    /\ residue' = measured_spectrum'
    /\ amplitude' = AmplitudeSentinel
    /\ amp_max' = AmpMaxSentinel
    /\ pc' = "loop"
    /\ UNCHANGED <<args, delay, phase, reconstructed, error, result, iterations>>

\* delta_t = 0: np.fft.fftfreq divides 1.0 by n*d
SetupRaise ==
    /\ pc = "start"
    /\ delta_t = 0
    /\ original_spectrum' = FFT(original_signal)
    /\ measured_spectrum' = FFT(measured_signal)
    /\ pc' = "error"
    /\ error' = "ZeroDivisionError"
    /\ UNCHANGED <<args, omega, original_hilbert, original_argpeak,
                   amplitudes, delays, phases, components, residue,
                   amplitude, amp_max, delay, phase, reconstructed,
                   result, iterations>>

\* the dominant wave packet of the residue: its amplitude, delay and phase
Extract(res, o_hilbert, o_argpeak, dt) ==
    LET r_c == IFFT(res)
        r_t == Array([n \in DOMAIN r_c |-> CReal(r_c[n])])
        r_hilbert == Hilbert(r_t)
        r_argpeak == Argmax(Abs(r_hilbert))
    IN [amplitude |-> CAbs(r_hilbert[r_argpeak]),
        delay |-> (r_argpeak - o_argpeak) * dt,
        phase |-> CAngle(r_hilbert[r_argpeak])
                  - CAngle(o_hilbert[o_argpeak]) + 2 * Pi]

NyquistIndex(len) == IF len % 2 = 0 THEN (len \div 2) + 1 ELSE (len + 1) \div 2

\* -2*np.pi*om*d in units of pi/6, om = num/den
DelayAngle(om, d) ==
    CHOOSE q \in {(-2 * Pi * om.num * d) \div om.den} :
        q * om.den = -2 * Pi * om.num * d

\* the double-sided spectrum of the component (amp, d, ph)
Reconstruct(o_spectrum, om, amp, d, ph) ==
    LET nyquist_index == NyquistIndex(ArrLen(o_spectrum))
        half_spectrum == Slice(o_spectrum, 0, nyquist_index)
        component_spectrum ==
            Array([k \in DOMAIN half_spectrum |->
                      CMul(CScale(amp, half_spectrum[k]),
                           CExp(DelayAngle(om[k], d) + ph))])
        n == ArrLen(component_spectrum)
    IN IF ArrLen(o_spectrum) % 2 = 0
       THEN Concatenate(component_spectrum,
                        Reversed(Slice(Conj(component_spectrum), 1, n - 1)))
       ELSE Concatenate(component_spectrum,
                        Reversed(Slice(Conj(component_spectrum), 1, n)))

\* numpy broadcasting of two one-dimensional arrays
Broadcastable(a, b) ==
    ArrLen(a) = ArrLen(b) \/ ArrLen(a) = 1 \/ ArrLen(b) = 1

\* a - b, broadcast
BSub(a, b) ==
    LET n == IF ArrLen(a) >= ArrLen(b) THEN ArrLen(a) ELSE ArrLen(b)
    IN Array([i \in 0..(n - 1) |->
                 CSub(a[IF ArrLen(a) = 1 THEN 0 ELSE i],
                      b[IF ArrLen(b) = 1 THEN 0 ELSE i])])

SubtractSwapped(res, rec) == BSub(rec, res)

\* residue = residue - reconstructed
SubtractComponent(res, rec) == BSub(res, rec)

AmpMaxEveryIteration(amps, amp, amax) == amp

AmpMaxSecondIteration(amps, amp, amax) == IF Len(amps) = 2 THEN amp ELSE amax

\* assign maximum amplitude if this is the first iteration
UpdateAmpMax(amps, amp, amax) == IF Len(amps) = 1 THEN amp ELSE amax

\* one pass of the loop body
Iterate ==
    /\ pc = "loop"
    /\ iterations < MaxIter
    /\ LoopCond(amplitude, threshold, amp_max)
    /\ \E e \in {Extract(residue, original_hilbert, original_argpeak, delta_t)} :
       \E rec \in {Reconstruct(original_spectrum, omega,
                               e.amplitude, e.delay, e.phase)} :
          /\ Broadcastable(residue, rec)
          /\ amplitude' = e.amplitude
          /\ delay' = e.delay
          /\ phase' = e.phase
          /\ amplitudes' = Append(amplitudes, e.amplitude)
          /\ delays' = Append(delays, e.delay)
          /\ phases' = Append(phases, e.phase)
          /\ reconstructed' = rec
          /\ residue' = SubtractComponent(residue, rec)
          /\ components' = Append(components, IFFT(rec))
          /\ amp_max' = UpdateAmpMax(amplitudes', e.amplitude, amp_max)
    /\ iterations' = iterations + 1
    /\ UNCHANGED <<args, reference, pc, error, result>>

\* a pass whose subtraction cannot be broadcast: numpy raises ValueError
IterateRaise ==
    /\ pc = "loop"
    /\ iterations < MaxIter
    /\ LoopCond(amplitude, threshold, amp_max)
    /\ \E e \in {Extract(residue, original_hilbert, original_argpeak, delta_t)} :
       \E rec \in {Reconstruct(original_spectrum, omega,
                               e.amplitude, e.delay, e.phase)} :
          /\ ~Broadcastable(residue, rec)
          /\ amplitude' = e.amplitude
          /\ delay' = e.delay
          /\ phase' = e.phase
          /\ amplitudes' = Append(amplitudes, e.amplitude)
          /\ delays' = Append(delays, e.delay)
          /\ phases' = Append(phases, e.phase)
          /\ reconstructed' = rec
    /\ pc' = "error"
    /\ error' = "ValueError"
    /\ UNCHANGED <<args, reference, residue, components, amp_max,
                   result, iterations>>

\* the loop condition fails: return the accumulators without their last entry
Return ==
    /\ pc = "loop"
    /\ ~LoopCond(amplitude, threshold, amp_max)
    /\ result' = <<ButLast(amplitudes), ButLast(delays),
                   ButLast(phases), ButLast(components)>>
    /\ pc' = "done"
    /\ UNCHANGED <<args, reference, amplitudes, delays, phases, components,
                   residue, amplitude, amp_max, delay, phase, reconstructed,
                   error, iterations>>

Next == Setup \/ SetupRaise \/ Iterate \/ IterateRaise \/ Return

Spec == Init /\ [][Next]_vars

(***************************************************************************)
(* The reconstruction operator on its own: lines 111-125 applied to an     *)
(* arbitrary original signal, amplitude, delay and phase.                  *)
(***************************************************************************)
\* every real signal of length n with samples in S
AllSignals(n, S) == [0..(n - 1) -> {CInt(x) : x \in S}]

\* phases drawn: every multiple of pi/6 in [0, 2*pi)
Phases == 0..(2 * Pi - 1)

\* delays drawn, in samples
Offsets == {-1, 0, 1}

ReconInit ==
    /\ \E n \in Lengths : original_signal \in AllSignals(n, RefSamples)
    /\ measured_signal = original_signal
    /\ delta_t \in DeltaTs \ {0}
    /\ threshold = DefaultThreshold
    /\ pc = "recon_start"
    /\ original_spectrum = <<>>
    /\ measured_spectrum = <<>>
    /\ omega = <<>>
    /\ original_hilbert = <<>>
    /\ original_argpeak = 0
    /\ amplitudes = <<>>
    /\ delays = <<>>
    /\ phases = <<>>
    /\ components = <<>>
    /\ residue = <<>>
    /\ amplitude \in 0..MaxAmp
    /\ amp_max = 0
    /\ \E m \in Offsets : delay = m * delta_t
    /\ phase \in Phases
    /\ reconstructed = <<>>
    /\ error = "none"
    /\ result = <<>>
    /\ iterations = 0

\* the spectrum and the frequency vector of the original signal
ReconSetup ==
    /\ pc = "recon_start"
    /\ original_spectrum' = FFT(original_signal)
    /\ omega' = FFTFreq(ArrLen(original_signal), delta_t)
    /\ pc' = "recon_ready"
    /\ UNCHANGED <<args, measured_spectrum, original_hilbert, original_argpeak,
                   amplitudes, delays, phases, components, residue,
                   amplitude, amp_max, delay, phase, reconstructed,
                   error, result, iterations>>

\* the double-sided spectrum of the drawn component
ReconApply ==
    /\ pc = "recon_ready"
    /\ reconstructed' =
           Reconstruct(original_spectrum, omega, amplitude, delay, phase)
    /\ pc' = "recon_done"
    /\ UNCHANGED <<args, reference, amplitudes, delays, phases, components,
                   residue, amplitude, amp_max, delay, phase,
                   error, result, iterations>>

ReconNext == ReconSetup \/ ReconApply

ReconSpec == ReconInit /\ [][ReconNext]_vars

(***************************************************************************)
(* Properties.                                                             *)
(***************************************************************************)
SameLength == ArrLen(measured_signal) = ArrLen(original_signal)

Empty4 == << <<>>, <<>>, <<>>, <<>> >>

\* X[(L-k) mod L] = conj(X[k]) for every bin k
Hermitian(X) ==
    \A k \in DOMAIN X : X[(ArrLen(X) - k) % ArrLen(X)] = CConj(X[k])

\* spectrum - fft(comps[1]) - ... - fft(comps[n]), subtractions as numpy
\* broadcasts them
Remainder(spectrum, comps) ==
    LET R[i \in 0..Len(comps)] ==
            IF i = 0 THEN spectrum ELSE BSub(R[i - 1], FFT(comps[i]))
    IN R[Len(comps)]

\* C1: the first loop iteration always executes: the loop condition holds on
\* entry (with the sentinels amplitude = 1, amp_max = 2) for every threshold,
\* so a call that returns has run at least one iteration.
C1_FirstIterationAlwaysRuns ==
    /\ (pc = "loop" /\ iterations = 0
            => LoopCond(amplitude, threshold, amp_max))
    /\ (pc = "done" => iterations >= 1)

\* C2: after k iterations each of the four returned sequences holds the entries
\* of iterations 1..k-1 (the last one dropped), so all four have length
\* N = k - 1 and N >= 0.
C2_ResultLengthIsIterationsMinusOne ==
    pc = "done" =>
        /\ result = <<ButLast(amplitudes), ButLast(delays),
                      ButLast(phases), ButLast(components)>>
        /\ \A i \in 1..4 : Len(result[i]) = iterations - 1
        /\ iterations - 1 >= 0

\* C3: for threshold >= 1 and equal-length signals the four returned sequences
\* are empty.
C3_ThresholdAtLeastOneReturnsEmpty ==
    (pc = "done" /\ threshold >= ThreshDen /\ SameLength) => result = Empty4

C3_Witness == pc = "done" /\ threshold >= ThreshDen /\ SameLength

\* C4: if measured_signal equals original_signal (non-zero) and threshold is in
\* (0,1), the call runs two iterations and returns exactly one component.
C4_IdentityReturnsOneComponent ==
    (/\ pc = "done"
     /\ measured_signal = original_signal
     /\ \E i \in DOMAIN original_signal : original_signal[i] # CZero
     /\ 0 < threshold
     /\ threshold < ThreshDen)
        => (iterations = 2 /\ Len(result[4]) = 1)

\* C5: a call whose signals differ in length is rejected with an error before
\* any transform is computed, and returns no result.
C5_ShapeMismatchRejectedBeforeTransforms ==
    (~SameLength /\ pc # "start") =>
        /\ pc = "error"
        /\ original_spectrum = <<>>
        /\ measured_spectrum = <<>>
        /\ original_hilbert = <<>>
        /\ result = <<>>

\* C6: a call with delta_t <= 0 or threshold <= 0 fails immediately: no loop
\* iteration is executed and no result is returned.
C6_InvalidParameterFailsImmediately ==
    ((delta_t <= 0 \/ threshold <= 0) /\ pc # "start") =>
        /\ pc = "error"
        /\ iterations = 0
        /\ result = <<>>

\* C7: for every signal length, amplitude, delay and phase the reconstructed
\* spectrum has as many bins as the signal and is Hermitian-symmetric (so its
\* DC bin, and its Nyquist bin when the length is even, are real).
C7_ReconstructedIsHermitian ==
    pc = "recon_done" =>
        /\ ArrLen(reconstructed) = ArrLen(original_signal)
        /\ Hermitian(reconstructed)

\* C8 as stated: when a call with equal-length signals returns, the measured
\* spectrum is the final residue plus the spectra of the returned components.
C8_ReturnedComponentsAccountForResidue ==
    (pc = "done" /\ SameLength) => residue = Remainder(measured_spectrum, result[4])

\* C8 as amended: when the call returns, the measured spectrum is the final
\* residue plus the spectra of the components of all executed iterations, the
\* returned ones and the discarded last one.
C8_AllComponentsAccountForResidue ==
    pc = "done" => residue = Remainder(measured_spectrum, components)

C8_Witness ==
    /\ pc = "done"
    /\ SameLength
    /\ Len(result[4]) >= 1
    /\ amplitude > 0
    /\ residue # Remainder(measured_spectrum, result[4])

\* C9: amp_max is the amplitude of the first iteration and no later iteration
\* changes it, and every returned amplitude passed the loop test against it:
\* amplitudes[i] > threshold * amplitudes[0].
C9_ReturnedAmplitudesPassedTest ==
    /\ (pc \in {"loop", "done"} /\ Len(amplitudes) >= 1
            => amp_max = amplitudes[1])
    /\ (pc = "done" =>
            \A i \in 1..Len(result[1]) :
                result[1][i] * ThreshDen > threshold * result[1][1])

\* two components returned, the second no smaller than the first
C9_Witness ==
    /\ pc = "done"
    /\ Len(result[1]) >= 2
    /\ result[1][2] >= result[1][1]

\* C10: a loop iteration leaves the reference state (the spectrum, analytic
\* signal and peak index of the original signal, the measured spectrum, the
\* frequency vector) and the arguments unchanged, and changes amp_max in the
\* first iteration only.
C10_IterationKeepsReferenceState ==
    [][(pc = "loop" /\ pc' = "loop") =>
          /\ UNCHANGED reference
          /\ UNCHANGED args
          /\ (iterations >= 1 => amp_max' = amp_max)]_vars

C10_Witness ==
    /\ pc = "loop"
    /\ iterations >= 2
    /\ residue # measured_spectrum
    /\ amp_max # AmpMaxSentinel
====
